---- MODULE Spec2Model ----
(***************************************************************************)
(* RequestQueue of frontend/app.js: a bounded-concurrency dispatcher for   *)
(* asynchronous work items, run on the JavaScript event loop.  One action  *)
(* of the model is one run-to-completion job of the event loop: a call of  *)
(* add(), the settlement of the promise a work item returned, or the       *)
(* resumption of a processNext() frame suspended at its await.             *)
(***************************************************************************)
EXTENDS Integers, Sequences, FiniteSets, TLC

\* ------------------------------------------------------------------ bounds
\* Number of work items ever handed to add() (nested submissions included).
MaxItems == 4
\* Length of the text in the search box, and number of changes made to it.
MaxLen == 2
MaxChanges == 3
\* Largest explicit constructor argument tried.
MaxConcurrency == 2

\* `constructor(concurrency = 3)`
DefaultConcurrency == 3

\* `const apiQueue = new RequestQueue(3)`
ApiQueueConcurrency == 3

\* `setTimeout(() => { ... }, 250)` in Search.handleInputChange
DebounceMs == 250

\* Results and errors work items may produce.
Values == {"v1", "v2"}
Errors == {"e1", "e2"}

Items == 1..MaxItems

\* What a work item fn does when it is invoked (`fn()` in processNext):
\*   "pending": returns a promise that settles later (a fetch);
\*   "adds":    submits another (pending) item to the same queue from its
\*              synchronous body, then returns a pending promise;
\*   "throws":  throws err synchronously.
FnBehaviours ==
    {[body |-> "pending", err |-> "none"],
     [body |-> "adds", err |-> "none"],
     [body |-> "throws", err |-> "e1"]}

\* Argument lists of `new RequestQueue(...)`: none, or one integer.
ConstructorArgs == {<<>>} \cup {<<k>> : k \in -1..MaxConcurrency}

VARIABLES
    concurrency,  \* this.concurrency
    running,      \* this.running
    queue,        \* this.queue: sequence of {fn, resolve, reject}
    submitted,    \* number of add() calls so far; the i-th call submits item i
    started,      \* ids of the work items whose fn was invoked, in order
    awaiting,     \* processNext frames suspended at `await fn()`: their locals
    handle,       \* handle[i]: the promise add() returned for item i
    fnResult,     \* fnResult[i]: what the invocation of item i's fn produced
    events,       \* the dispatcher operations of the last step, in order
    abandoned,    \* items whose submitting component is gone (unmounted)
    pool,         \* further RequestQueue instances, each with its own state
    search,       \* the Search component: its input, debounce timer, requests
    card          \* a card component: its symbol prop, its requests, its data

vars == <<concurrency, running, queue, submitted, started, awaiting, handle,
          fnResult, events, abandoned, pool, search, card>>

NoPromise == [state |-> "none", value |-> "none"]
Pending == [state |-> "pending", value |-> "none"]
Fulfilled(v) == [state |-> "fulfilled", value |-> v]
Rejected(e) == [state |-> "rejected", value |-> e]
Thrown(e) == [state |-> "thrown", value |-> e]

\* The dispatcher and its environment as one record, threaded through the
\* synchronous code of a step.
\* Bind(e, F) is F(e) with e evaluated once.
Bind(e, F(_)) == CHOOSE r \in {F(x) : x \in {e}} : TRUE

This ==
    [concurrency |-> concurrency, running |-> running, queue |-> queue,
     submitted |-> submitted, started |-> started, awaiting |-> awaiting,
     handle |-> handle, fnResult |-> fnResult, events |-> <<>>]

CommitDispatcher(e) ==
    \E s \in {e} :
        /\ concurrency' = s.concurrency
        /\ running' = s.running
        /\ queue' = s.queue
        /\ submitted' = s.submitted
        /\ started' = s.started
        /\ awaiting' = s.awaiting
        /\ handle' = s.handle
        /\ fnResult' = s.fnResult
        /\ events' = s.events

Commit(e) ==
    /\ CommitDispatcher(e)
    /\ UNCHANGED <<abandoned, pool, search, card>>

\* Record one dispatcher operation, with `running` and the queue length as
\* they are right after it.
Log(e, op, i) ==
    Bind(e, LAMBDA s :
        [s EXCEPT !.events = Append(@, [op |-> op, item |-> i,
                                        running |-> s.running,
                                        qlen |-> Len(s.queue)])])

\* constructor(concurrency = 3) { this.concurrency = concurrency; ... }
Constructor(args) ==
    [concurrency |-> IF Len(args) = 0 THEN DefaultConcurrency ELSE args[1],
     running |-> 0,
     queue |-> <<>>]

\* Mutants of Push: the item is enqueued twice; the item is put at the front.
PushTwice(q, item) == Append(Append(q, item), item)
PushFront(q, item) == <<item>> \o q

\* this.queue.push(item)
Push(q, item) == Append(q, item)

\* Mutant of shift: the element behind the head is dropped with it.
ShiftRestLosesNext(q) == IF Len(q) >= 2 THEN Tail(Tail(q)) ELSE Tail(q)

\* this.queue.shift(): the element removed, and what is left
ShiftItem(q) == Head(q)
ShiftRest(q) == Tail(q)

\* Mutant of the guard: `>` for `>=`.
BlockedOffByOne(s) == s.running > s.concurrency \/ Len(s.queue) = 0

\* if (this.running >= this.concurrency || this.queue.length === 0) return;
Blocked(s) == s.running >= s.concurrency \/ Len(s.queue) = 0

\* Mutants of the settlement: the result is dropped; the error reaches every
\* pending handle.
ResolveDropsResult(s, h, v) ==
    IF s.handle[h].state = "pending"
    THEN [s EXCEPT !.handle[h] = Fulfilled("none")]
    ELSE s

RejectEveryPending(s, h, e) ==
    [s EXCEPT !.handle = [j \in Items |->
        IF s.handle[j].state = "pending" THEN Rejected(e) ELSE s.handle[j]]]

\* resolve(result) / reject(err) of the promise add() created; settling a
\* promise that is not pending does nothing.
Resolve(s, h, v) ==
    IF s.handle[h].state = "pending"
    THEN [s EXCEPT !.handle[h] = Fulfilled(v)]
    ELSE s

Reject(s, h, e) ==
    IF s.handle[h].state = "pending"
    THEN [s EXCEPT !.handle[h] = Rejected(e)]
    ELSE s

RECURSIVE ProcessNext(_)

\* Mutant of the finally block: it counts down the limit, not `running`.
FinallyShrinksLimit(s, i) ==
    ProcessNext(Log([s EXCEPT !.concurrency = @ - 1], "running--", i))

\* Mutant of the finally block: the slot is given back, no dispatch follows.
FinallyWithoutDispatch(s, i) ==
    Log([s EXCEPT !.running = @ - 1], "running--", i)

\* Mutant of the finally block: the count goes down by two.
FinallyDecrementsTwice(s, i) ==
    ProcessNext(Log([s EXCEPT !.running = @ - 2], "running--", i))

\* Mutant of the finally block: processNext() is called first, the slot
\* is given back after it.
FinallyDispatchesBeforeRelease(s, i) ==
    Bind(ProcessNext(s), LAMBDA s1 :
        Log([s1 EXCEPT !.running = @ - 1], "running--", i))

\* finally { this.running--; this.processNext(); }
Finally(s, i) ==
    ProcessNext(Log([s EXCEPT !.running = @ - 1], "running--", i))

\* Mutant of the success path: the next item is dispatched first, the
\* handle is settled last.
OnFulfilledSettlesLast(s, item, v) ==
    Log(Resolve(Finally(s, item.fn.id), item.resolve, v), "resolve", item.fn.id)

\* Mutant of the success path: no finally block, the slot is never released.
OnFulfilledKeepsSlot(s, item, v) ==
    Log(Resolve(s, item.resolve, v), "resolve", item.fn.id)

\* const result = await fn(); resolve(result);  -- then the finally block
OnFulfilled(s, item, v) ==
    Finally(Log(Resolve(s, item.resolve, v), "resolve", item.fn.id), item.fn.id)

\* Mutant of the failure path: no finally block, the slot is never released.
OnRejectedKeepsSlot(s, item, e) ==
    Log(Reject(s, item.reject, e), "reject", item.fn.id)

\* Mutant of the failure path: after reject(err), resolve is called too.
OnRejectedThenResolves(s, item, e) ==
    Finally(Log(Resolve(Log(Reject(s, item.reject, e), "reject", item.fn.id),
                        item.resolve, e), "resolve", item.fn.id), item.fn.id)

\* catch (err) { reject(err); }  -- then the finally block
OnRejected(s, item, e) ==
    Finally(Log(Reject(s, item.reject, e), "reject", item.fn.id), item.fn.id)

\* The entry {fn, resolve, reject} add() makes for the i-th submission.
Entry(i, fn) ==
    [fn |-> [id |-> i, body |-> fn.body, err |-> fn.err],
     resolve |-> i, reject |-> i]

\* Mutant of add: the item is enqueued and no dispatch is attempted.
addWithoutDispatch(e, fn) ==
    Bind(e, LAMBDA s :
    Bind(Log([s EXCEPT !.submitted = @ + 1, !.handle[s.submitted + 1] = Pending],
             "add", s.submitted + 1), LAMBDA s1 :
        Log([s1 EXCEPT !.queue = Push(@, Entry(s1.submitted, fn))],
            "push", s1.submitted)))

\* add(fn): new Promise((resolve, reject) => { push; processNext() })
add(e, fn) ==
    Bind(e, LAMBDA s :
    Bind(Log([s EXCEPT !.submitted = @ + 1, !.handle[s.submitted + 1] = Pending],
             "add", s.submitted + 1), LAMBDA s1 :
        ProcessNext(Log([s1 EXCEPT !.queue = Push(@, Entry(s1.submitted, fn))],
                        "push", s1.submitted))))

\* fn(): the synchronous part of the work item
InvokeFn(e, item) ==
    Bind(Log([e EXCEPT !.started = Append(@, item.fn.id)], "call", item.fn.id),
         LAMBDA s1 :
        CASE item.fn.body = "throws" ->
                [s1 EXCEPT !.fnResult[item.fn.id] = Thrown(item.fn.err)]
          [] item.fn.body = "adds" ->
                [add(s1, [body |-> "pending", err |-> "none"])
                    EXCEPT !.fnResult[item.fn.id] = Pending]
          [] OTHER ->
                [s1 EXCEPT !.fnResult[item.fn.id] = Pending])

\* Mutant of processNext: running is incremented after fn was invoked.
ProcessNextIncrementsLate(e) ==
    Bind(Log(e, "processNext", 0), LAMBDA s0 :
        IF Blocked(s0)
        THEN s0
        ELSE Bind(ShiftItem(s0.queue), LAMBDA item :
             Bind(Log([s0 EXCEPT !.queue = ShiftRest(@)], "shift", item.fn.id),
                  LAMBDA s1 :
             Bind(InvokeFn(s1, item), LAMBDA s2 :
             Bind(Log([s2 EXCEPT !.running = @ + 1], "running++", 0), LAMBDA s3 :
                 IF s3.fnResult[item.fn.id].state = "thrown"
                 THEN OnRejected(s3, item, s3.fnResult[item.fn.id].value)
                 ELSE [s3 EXCEPT !.awaiting = @ \cup {item}])))))

\* Mutant of processNext: fn() is called outside the try, a synchronous
\* throw leaves the function at once.
ProcessNextThrowEscapes(e) ==
    Bind(Log(e, "processNext", 0), LAMBDA s0 :
        IF Blocked(s0)
        THEN s0
        ELSE Bind(Log([s0 EXCEPT !.running = @ + 1], "running++", 0), LAMBDA s1 :
             Bind(ShiftItem(s1.queue), LAMBDA item :
             Bind(Log([s1 EXCEPT !.queue = ShiftRest(@)], "shift", item.fn.id),
                  LAMBDA s2 :
             Bind(InvokeFn(s2, item), LAMBDA s3 :
                 IF s3.fnResult[item.fn.id].state = "thrown"
                 THEN s3
                 ELSE [s3 EXCEPT !.awaiting = @ \cup {item}])))))

\* async processNext()
ProcessNext(e) ==
    Bind(Log(e, "processNext", 0), LAMBDA s0 :
        IF Blocked(s0)
        THEN s0
        ELSE Bind(Log([s0 EXCEPT !.running = @ + 1], "running++", 0), LAMBDA s1 :
             Bind(ShiftItem(s1.queue), LAMBDA item :
             Bind(Log([s1 EXCEPT !.queue = ShiftRest(@)], "shift", item.fn.id),
                  LAMBDA s2 :
             Bind(InvokeFn(s2, item), LAMBDA s3 :
                 IF s3.fnResult[item.fn.id].state = "thrown"
                 THEN OnRejected(s3, item, s3.fnResult[item.fn.id].value)
                 ELSE [s3 EXCEPT !.awaiting = @ \cup {item}])))))

\* ------------------------------------------------- the Search component
\* The text of the search box is a sequence of characters.
Chars == {"a", "B", ",", " "}
RECURSIVE TextsOfLen(_)
TextsOfLen(n) ==
    IF n = 0 THEN {<<>>}
    ELSE {Append(t, c) : t \in TextsOfLen(n - 1), c \in Chars}
Texts == UNION {TextsOfLen(n) : n \in 0..MaxLen}

\* text.split(',') ... parts[parts.length - 1]
LastPart(text) ==
    IF \E k \in 1..Len(text) : text[k] = ","
    THEN SubSeq(text, (CHOOSE k \in 1..Len(text) :
                          /\ text[k] = ","
                          /\ \A m \in (k + 1)..Len(text) : text[m] # ",") + 1,
                Len(text))
    ELSE text

\* .trim()
Trim(text) ==
    IF \A k \in 1..Len(text) : text[k] = " "
    THEN <<>>
    ELSE SubSeq(text,
                CHOOSE k \in 1..Len(text) :
                    text[k] # " " /\ \A m \in 1..(k - 1) : text[m] = " ",
                CHOOSE k \in 1..Len(text) :
                    text[k] # " " /\ \A m \in (k + 1)..Len(text) : text[m] = " ")

\* .toUpperCase()
ToUpperCase(text) ==
    [k \in 1..Len(text) |-> IF text[k] = "a" THEN "A" ELSE text[k]]

\* const getCurrentWord = (text) => { ... }
getCurrentWord(text) == ToUpperCase(Trim(LastPart(text)))

\* The component as it is mounted: useState(''), useRef(null), no timer set,
\* no search request made.  debounceRef 0 is null; timer ids start at 1.
SearchMounted ==
    [input |-> <<>>, debounceRef |-> 0, timers |-> {}, timeouts |-> 0,
     sinceChange |-> 0, requests |-> 0, query |-> <<>>]

\* clearTimeout(id): the timer, if it is still pending, is dropped
clearTimeout(s, id) == [s EXCEPT !.timers = {t \in @ : t.id # id}]

\* setTimeout(callback, ms), the callback holding currentWord
setTimeout(s, word, ms) ==
    [s EXCEPT !.timeouts = @ + 1,
              !.timers = @ \cup {[id |-> s.timeouts + 1, word |-> word,
                                  remaining |-> ms]}]

\* Mutant of handleInputChange: the pending timer is not cleared.
handleInputChangeNoClear(s, value) ==
    Bind([s EXCEPT !.input = value, !.sinceChange = 0], LAMBDA s1 :
    Bind(setTimeout(s1, getCurrentWord(value), DebounceMs), LAMBDA s2 :
        [s2 EXCEPT !.debounceRef = s2.timeouts]))

\* const handleInputChange = (e) => { ... }
handleInputChange(s, value) ==
    Bind([s EXCEPT !.input = value, !.sinceChange = 0], LAMBDA s1 :
    Bind(IF s1.debounceRef # 0 THEN clearTimeout(s1, s1.debounceRef) ELSE s1,
         LAMBDA s2 :
    Bind(setTimeout(s2, getCurrentWord(value), DebounceMs), LAMBDA s3 :
        [s3 EXCEPT !.debounceRef = s3.timeouts])))

\* const searchStocks = async (query) => { ... fetch(`/api/search-stocks/...`)
searchStocks(s, query) ==
    IF Len(query) < 1
    THEN s
    ELSE [s EXCEPT !.requests = @ + 1, !.query = query]

\* The callback given to setTimeout in handleInputChange.
DebounceCallback(s, currentWord) ==
    IF Len(currentWord) >= 1
    THEN searchStocks(s, currentWord)
    ELSE s

\* ------------------------------------------------------- a card's symbol
\* One instance of VolatilityCard, CSPMetricsCard or MysticPulseCard (their
\* effects and handlers are the same): its `symbol` prop, its state
\* (data, loading, error; "none" is null), the requests it has made with
\* the symbol each asked for, and the ids of the requests whose handler has
\* run, in the order they ran.  effectAt is how many handlers had run when
\* the effect last ran.
Symbols == {"s1", "s2"}

\* what the backend answers for a symbol
DataOf(symbol) == IF symbol = "s1" THEN "v1" ELSE "v2"

\* useState(null), useState(true), useState(null); no effect has run yet
CardMounted ==
    [symbol |-> "none", data |-> "none", loading |-> TRUE, error |-> "none",
     requests |-> {}, handled |-> <<>>, effectAt |-> 0]

\* useEffect(() => { setLoading(true); setError(null); apiQueue.add(...) },
\* [symbol]): the part that sets the card's state
CardEffectState(c, symbol, id) ==
    [c EXCEPT !.symbol = symbol, !.loading = TRUE, !.error = "none",
              !.requests = @ \cup {[id |-> id, symbol |-> symbol]},
              !.effectAt = Len(c.handled)]

\* .then(data => { setVolData(data); setLoading(false); })
\* .catch(err => { setError(err.message); setLoading(false); })
CardSettleHandler(c, id, result) ==
    IF result.state = "fulfilled"
    THEN [c EXCEPT !.data = result.value, !.loading = FALSE,
                   !.handled = Append(@, id)]
    ELSE [c EXCEPT !.error = result.value, !.loading = FALSE,
                   !.handled = Append(@, id)]

\* What the card renders: if (loading) ...; if (error || !volData) ...
Shown(c) ==
    IF c.loading THEN "loading"
    ELSE IF c.error # "none" \/ c.data = "none" THEN "unavailable"
    ELSE c.data

\* ------------------------------------------------------------------ steps
Init ==
    /\ \E args \in ConstructorArgs :
          LET q == Constructor(args)
          IN  /\ concurrency = q.concurrency
              /\ running = q.running
              /\ queue = q.queue
    /\ submitted = 0
    /\ started = <<>>
    /\ awaiting = {}
    /\ handle = [i \in Items |-> NoPromise]
    /\ fnResult = [i \in Items |-> NoPromise]
    /\ events = <<>>
    /\ abandoned = {}
    /\ pool = <<>>
    /\ search = SearchMounted
    /\ card = CardMounted

\* Items the model still has to account for: one per fn, two for a fn that
\* submits another one when it runs.
Cost(fn) == IF fn.body = "adds" THEN 2 ELSE 1
NestedPlanned(q) == Cardinality({k \in 1..Len(q) : q[k].fn.body = "adds"})

\* A caller calls apiQueue.add(fn).
Add(fn) ==
    /\ submitted + NestedPlanned(queue) + Cost(fn) <= MaxItems
    /\ Commit(add(This, fn))

\* The promise returned by item i's fn settles (the fetch answers).
FnSettles(i, outcome) ==
    /\ fnResult[i].state = "pending"
    /\ fnResult' = [fnResult EXCEPT ![i] = outcome]
    /\ events' = <<>>
    /\ UNCHANGED <<concurrency, running, queue, submitted, started, awaiting,
                   handle, abandoned, pool, search, card>>

\* Mutant of the resumption: the frames resume in the order they started,
\* a frame waits for the frames of the items dispatched before its own.
ResumeInStartOrder(item) ==
    /\ item \in awaiting
    /\ \A g \in awaiting : g.fn.id >= item.fn.id
    /\ fnResult[item.fn.id].state \in {"fulfilled", "rejected"}
    /\ \E s \in {[This EXCEPT !.awaiting = @ \ {item}]}, r \in {fnResult[item.fn.id]} :
          IF r.state = "fulfilled"
          THEN Commit(OnFulfilled(s, item, r.value))
          ELSE Commit(OnRejected(s, item, r.value))

\* The frame of processNext that awaits item.fn resumes after the await.
Resume(item) ==
    /\ item \in awaiting
    /\ fnResult[item.fn.id].state \in {"fulfilled", "rejected"}
    /\ \E s \in {[This EXCEPT !.awaiting = @ \ {item}]}, r \in {fnResult[item.fn.id]} :
          IF r.state = "fulfilled"
          THEN Commit(OnFulfilled(s, item, r.value))
          ELSE Commit(OnRejected(s, item, r.value))

Outcomes == {Fulfilled(v) : v \in Values} \cup {Rejected(e) : e \in Errors}

\* One job of the event loop, the work items' promises settling with an
\* outcome of O.
Step(O) ==
    \/ \E fn \in FnBehaviours : Add(fn)
    \/ \E i \in Items, o \in O : FnSettles(i, o)
    \/ \E item \in awaiting : Resume(item)

Next == Step(Outcomes)

Spec == Init /\ [][Next]_vars

\* The event loop runs every job that is ready: a promise that settles has
\* its reaction (the rest of processNext after the await) run.  That every
\* promise a work item returned settles is the assumption the liveness
\* claims make.  Which value or error a promise settles with has no part in
\* what is dispatched when: progress is checked with one value and one error.
LiveOutcomes == {Fulfilled("v1"), Rejected("e1")}

FairNext == Step(LiveOutcomes)

FairSpec ==
    /\ Init
    /\ [][FairNext]_vars
    /\ WF_vars(\/ \E i \in Items, o \in LiveOutcomes : FnSettles(i, o)
               \/ \E item \in awaiting : Resume(item))

\* ------------------------------------------------------------- the cards
\* The four card components of a stock (VolatilityCard, CSPMetricsCard,
\* PriceChart, MysticPulseCard) each fetch their data in an effect that runs
\* when the component mounts and again when its symbol changes.  Every one
\* of these effects hands its fetch to the one module-level apiQueue.  Any
\* number of cards for any symbols is any number of runs of the effects.

\* Max 3 concurrent API calls: const apiQueue = new RequestQueue(3);
apiQueue == Constructor(<<ApiQueueConcurrency>>)

\* () => fetch(url).then(res => { if (!res.ok) throw ...; return res.json(); })
\* returns a promise, fulfilled with the data or rejected with an error.
CardFetch == [body |-> "pending", err |-> "none"]

\* The page has just loaded: apiQueue is idle, no card has mounted.
CardInit ==
    /\ Init
    /\ concurrency = apiQueue.concurrency
    /\ running = apiQueue.running
    /\ queue = apiQueue.queue

\* VolatilityCard: useEffect(() => { apiQueue.add(() => fetch(
\* `/api/volatility/${symbol}`)...) ... }, [symbol])
VolatilityCardEffect ==
    /\ submitted < MaxItems
    /\ Commit(add(This, CardFetch))

\* CSPMetricsCard: apiQueue.add(() => fetch(`/api/csp-metrics/${symbol}`)...)
CSPMetricsCardEffect ==
    /\ submitted < MaxItems
    /\ Commit(add(This, CardFetch))

\* Mutant of the PriceChart effect: it calls fetch() itself, not in a fn
\* handed to apiQueue.
PriceChartFetchesDirectly(chartReady) ==
    /\ chartReady
    /\ submitted < MaxItems
    /\ submitted' = submitted + 1
    /\ started' = Append(started, submitted + 1)
    /\ fnResult' = [fnResult EXCEPT ![submitted + 1] = Pending]
    /\ handle' = [handle EXCEPT ![submitted + 1] = Pending]
    /\ events' = <<>>
    /\ UNCHANGED <<concurrency, running, queue, awaiting, abandoned, pool,
                   search, card>>

\* PriceChart: if (!chartRef.current) return; ...
\* apiQueue.add(() => fetch(`/api/history/${symbol}?period=${period}`)...)
PriceChartEffect(chartReady) ==
    /\ chartReady
    /\ submitted < MaxItems
    /\ Commit(add(This, CardFetch))

\* MysticPulseCard: apiQueue.add(() => fetch(
\* `/api/mystic-pulse/${symbol}?period=1y`)...)
MysticPulseCardEffect ==
    /\ submitted < MaxItems
    /\ Commit(add(This, CardFetch))

\* Mutant of the unmount: a cleanup takes the component's request out of
\* the queue, or gives its slot back, before the fetch has answered.
CardUnmountCancels(i) ==
    /\ i \in 1..submitted
    /\ i \notin abandoned
    /\ handle[i] = Pending
    /\ abandoned' = abandoned \cup {i}
    /\ queue' = SelectSeq(queue, LAMBDA x : x.fn.id # i)
    /\ awaiting' = {f \in awaiting : f.fn.id # i}
    /\ running' = Cardinality(awaiting')
    /\ events' = <<>>
    /\ UNCHANGED <<concurrency, submitted, started, handle, fnResult, pool,
                   search, card>>

\* The component that submitted item i unmounts (StockAnalysis gives its
\* cards a new key when the stock is refreshed, the dashboard drops a stock)
\* while the handle is pending.  The effects return no cleanup: nothing is
\* told to the dispatcher.
CardUnmounts(i) ==
    /\ i \in 1..submitted
    /\ i \notin abandoned
    /\ handle[i] = Pending
    /\ abandoned' = abandoned \cup {i}
    /\ events' = <<>>
    /\ UNCHANGED <<concurrency, running, queue, submitted, started, awaiting,
                   handle, fnResult, pool, search, card>>

CardNext ==
    \/ VolatilityCardEffect
    \/ CSPMetricsCardEffect
    \/ \E chartReady \in BOOLEAN : PriceChartEffect(chartReady)
    \/ MysticPulseCardEffect
    \/ \E i \in Items, o \in LiveOutcomes : FnSettles(i, o)
    \/ \E item \in awaiting : Resume(item)
    \/ \E i \in Items : CardUnmounts(i)

CardSpec == CardInit /\ [][CardNext]_vars

\* The completion of item in dispatcher state s when its fn's promise has
\* settled with outcome o: the try path or the catch path of processNext.
Complete(s, item, o) ==
    IF o.state = "fulfilled"
    THEN OnFulfilled(s, item, o.value)
    ELSE OnRejected(s, item, o.value)

\* ------------------------------------------------- several dispatchers
\* RequestQueue is a class: a program may construct more than one.  pool
\* holds two instances, each with the fields its constructor made and its
\* own work items; the log of operations is not kept for them.
Instances == {1, 2}

\* new RequestQueue(...args), nothing submitted yet
NewInstance(args) ==
    Bind(Constructor(args), LAMBDA q :
        [concurrency |-> q.concurrency, running |-> q.running, queue |-> q.queue,
         submitted |-> 0, started |-> <<>>, awaiting |-> {},
         handle |-> [i \in Items |-> NoPromise],
         fnResult |-> [i \in Items |-> NoPromise], events |-> <<>>])

\* Mutant of the instance state: the queue array is one for the class, a
\* method that changes it changes it for every instance.
SetInstanceSharedQueue(p, k, s) ==
    [j \in DOMAIN p |-> IF j = k THEN s ELSE [p[j] EXCEPT !.queue = s.queue]]

\* The methods read and write the fields of `this` only (this.concurrency,
\* this.running, this.queue): a call on instance k changes instance k.
SetInstance(p, k, s) == [p EXCEPT ![k] = s]

\* The work items of all instances share the model's budget of items.
PoolPlanned ==
    pool[1].submitted + NestedPlanned(pool[1].queue)
        + pool[2].submitted + NestedPlanned(pool[2].queue)

TwoInit ==
    /\ concurrency = apiQueue.concurrency
    /\ running = apiQueue.running
    /\ queue = apiQueue.queue
    /\ submitted = 0
    /\ started = <<>>
    /\ awaiting = {}
    /\ handle = [i \in Items |-> NoPromise]
    /\ fnResult = [i \in Items |-> NoPromise]
    /\ events = <<>>
    /\ abandoned = {}
    /\ search = SearchMounted
    /\ card = CardMounted
    /\ \E a, b \in {args \in ConstructorArgs : Constructor(args).concurrency >= 1} :
          pool = <<NewInstance(a), NewInstance(b)>>

\* A caller calls add(fn) on instance k.
PoolAdd(k, fn) ==
    /\ PoolPlanned + Cost(fn) <= MaxItems
    /\ pool' = SetInstance(pool, k, [add(pool[k], fn) EXCEPT !.events = <<>>])
    /\ UNCHANGED <<concurrency, running, queue, submitted, started, awaiting,
                   handle, fnResult, events, abandoned, search, card>>

\* The promise returned by item i's fn of instance k settles.
PoolFnSettles(k, i, outcome) ==
    /\ pool[k].fnResult[i].state = "pending"
    /\ pool' = SetInstance(pool, k, [pool[k] EXCEPT !.fnResult[i] = outcome])
    /\ UNCHANGED <<concurrency, running, queue, submitted, started, awaiting,
                   handle, fnResult, events, abandoned, search, card>>

\* The frame of instance k's processNext that awaits item.fn resumes.
PoolResume(k, item) ==
    /\ item \in pool[k].awaiting
    /\ pool[k].fnResult[item.fn.id].state \in {"fulfilled", "rejected"}
    /\ \E s \in {[pool[k] EXCEPT !.awaiting = @ \ {item}]} :
          pool' = SetInstance(pool, k,
                     [Complete(s, item, s.fnResult[item.fn.id]) EXCEPT !.events = <<>>])
    /\ UNCHANGED <<concurrency, running, queue, submitted, started, awaiting,
                   handle, fnResult, events, abandoned, search, card>>

TwoNext ==
    \E k \in Instances :
        \/ \E fn \in FnBehaviours : PoolAdd(k, fn)
        \/ \E i \in Items, o \in LiveOutcomes : PoolFnSettles(k, i, o)
        \/ \E item \in pool[k].awaiting : PoolResume(k, item)

TwoSpec == TwoInit /\ [][TwoNext]_vars

\* ------------------------------------------ steps of a card and its symbol
\* The handlers of a settled handle are microtasks: they run before any
\* other job of the event loop.
HandlersDone ==
    \A r \in card.requests :
        handle[r.id].state \in {"fulfilled", "rejected"} =>
            \E k \in 1..Len(card.handled) : card.handled[k] = r.id

\* The card is rendered with a symbol it did not have (at mount, or when
\* the prop changes): its effect runs.
CardEffect(symbol) ==
    /\ HandlersDone
    /\ symbol # card.symbol
    /\ submitted < MaxItems
    /\ CommitDispatcher(add(This, CardFetch))
    /\ card' = CardEffectState(card, symbol, submitted + 1)
    /\ UNCHANGED <<abandoned, pool, search>>

\* The then/catch handler of the card's request id runs.
CardHandler(id) ==
    /\ \E r \in card.requests : r.id = id
    /\ handle[id].state \in {"fulfilled", "rejected"}
    /\ \A k \in 1..Len(card.handled) : card.handled[k] # id
    /\ card' = CardSettleHandler(card, id, handle[id])
    /\ UNCHANGED <<concurrency, running, queue, submitted, started, awaiting,
                   handle, fnResult, events, abandoned, pool, search>>

\* The backend's answer to request i: the data of the symbol asked for, or
\* an error.
Answer(i, ok) ==
    IF ~ok THEN Rejected("e1")
    ELSE IF \E r \in card.requests : r.id = i
         THEN Fulfilled(DataOf((CHOOSE r \in card.requests : r.id = i).symbol))
         ELSE Fulfilled("v1")

SymbolNext ==
    \/ \E symbol \in Symbols : CardEffect(symbol)
    \/ HandlersDone /\ VolatilityCardEffect
    \/ HandlersDone /\ \E i \in Items, ok \in BOOLEAN : FnSettles(i, Answer(i, ok))
    \/ HandlersDone /\ \E item \in awaiting : Resume(item)
    \/ \E id \in Items : CardHandler(id)

SymbolSpec == CardInit /\ [][SymbolNext]_vars

\* --------------------------------------------------- steps of the Search
\* The user changes the text of the search box.
HandleInputChange(value) ==
    /\ search.timeouts < MaxChanges
    /\ search' = handleInputChange(search, value)
    /\ UNCHANGED <<concurrency, running, queue, submitted, started, awaiting,
                   handle, fnResult, events, abandoned, pool, card>>

\* d milliseconds pass.  The time since the last change is kept up to the
\* debounce delay.
TimePasses(d) ==
    /\ search' = [search EXCEPT
          !.timers = {[t EXCEPT !.remaining = IF @ > d THEN @ - d ELSE 0] : t \in @},
          !.sinceChange = IF @ + d < DebounceMs THEN @ + d ELSE DebounceMs]
    /\ UNCHANGED <<concurrency, running, queue, submitted, started, awaiting,
                   handle, fnResult, events, abandoned, pool, card>>

\* A timer whose delay is over runs its callback.
TimerFires(t) ==
    /\ t \in search.timers
    /\ t.remaining = 0
    /\ search' = DebounceCallback([search EXCEPT !.timers = @ \ {t}], t.word)
    /\ UNCHANGED <<concurrency, running, queue, submitted, started, awaiting,
                   handle, fnResult, events, abandoned, pool, card>>

SearchNext ==
    \/ \E value \in Texts : HandleInputChange(value)
    \/ \E d \in {100, DebounceMs} : TimePasses(d)
    \/ \E t \in search.timers : TimerFires(t)

SearchSpec == CardInit /\ [][SearchNext]_vars

\* ----------------------------------------------------------- vocabulary
Count(i, seq) == Cardinality({k \in 1..Len(seq) : seq[k] = i})
Pos(i, seq) == CHOOSE k \in 1..Len(seq) : seq[k] = i
Started(i) == \E k \in 1..Len(started) : started[k] = i
InQueue(i) == \E k \in 1..Len(queue) : queue[k].fn.id = i
Active(i) == \E f \in awaiting : f.fn.id = i
Settled(p) == p.state \in {"fulfilled", "rejected"}
FnFailed(i) == fnResult[i].state \in {"rejected", "thrown"}
\* item i was dispatched and its completion code (settle, running--,
\* processNext) has run
Completed(i) == Started(i) /\ ~Active(i)
\* how often resolve or reject of item i's handle is called in the step
\* whose operations are ev
SettleCalls(i, ev) ==
    Cardinality({k \in 1..Len(ev) :
                    ev[k].op \in {"resolve", "reject"} /\ ev[k].item = i})
\* how many operations op the step whose operations are ev has made
Ops(op, ev) == Cardinality({k \in 1..Len(ev) : ev[k].op = op})
\* no fn invoked in the step threw synchronously or called add() itself
PlainStep(ev, res) ==
    \A k \in 1..Len(ev) :
        ev[k].op = "call" =>
            /\ res[ev[k].item].state # "thrown"
            /\ k < Len(ev) => ev[k + 1].op # "add"
\* an add() step as the claim C18 has it: one item appended, then possibly
\* the head removed and running incremented
AddShape ==
    \E fn \in FnBehaviours :
        \E q1 \in {Append(queue, Entry(submitted + 1, fn))} :
            \/ queue' = q1 /\ running' = running
            \/ queue' = Tail(q1) /\ running' = running + 1
\* a completion step as the claim C18 has it: running decremented, then
\* possibly the head removed and running incremented
CompletionShape ==
    \/ queue' = queue /\ running' = running - 1
    \/ queue # <<>> /\ queue' = Tail(queue) /\ running' = running - 1 + 1
\* s with every outcome so far made the same one: each settled promise and
\* each settled handle is fulfilled with "v1".
Scrub(s) ==
    [s EXCEPT
        !.handle = [i \in Items |->
            IF Settled(s.handle[i]) THEN Fulfilled("v1") ELSE s.handle[i]],
        !.fnResult = [i \in Items |->
            IF Settled(s.fnResult[i]) THEN Fulfilled("v1") ELSE s.fnResult[i]]]
\* What of s does not depend on outcomes: queue, running, the order of
\* dispatch, the active items, and which promises and handles have settled.
View(s) == [Scrub(s) EXCEPT !.events = <<>>]
\* the items whose fn was called and has not settled: requests on the wire
InFlight == {i \in Items : fnResult[i].state = "pending"}

\* ------------------------------------------------------------------ C1
\* C1: with a limit K >= 1, in every reachable state, whatever add() calls
\* and settlements (successes, failures) came before, running <= K.
C1_RunningAtMostLimit == concurrency >= 1 => running <= concurrency

\* the limit is reached with items waiting, after a success and a failure
C1_Witness ==
    /\ concurrency >= 1
    /\ running = concurrency
    /\ Len(queue) >= 1
    /\ \E i, j \in Items : handle[i].state = "fulfilled" /\ handle[j].state = "rejected"

\* ------------------------------------------------------------------ C2
\* C2: every work item's fn is invoked at most once; an item that left the
\* queue is never in the queue again, whether it succeeded or failed.
C2_DispatchedAtMostOnce ==
    \A i \in Items :
        /\ Count(i, started) <= 1
        /\ Started(i) => ~InQueue(i)
        /\ Cardinality({k \in 1..Len(queue) : queue[k].fn.id = i}) <= 1

\* an item failed, its completion ran, and later items were dispatched
C2_Witness ==
    \E i, j \in Items :
        /\ Completed(i) /\ FnFailed(i)
        /\ Completed(j) /\ fnResult[j].state = "fulfilled"
        /\ Len(started) = MaxItems

\* ------------------------------------------------------------------ C3
\* C3: dispatch is FIFO: if A was passed to add() before B and B's fn has
\* been invoked, then A's fn was invoked, and before B's.
C3_FifoDispatch ==
    \A a, b \in Items :
        (a < b /\ Started(b)) => (Started(a) /\ Pos(a, started) < Pos(b, started))

\* items waited in the queue and were dispatched as slots freed, the later
\* one completing first
C3_Witness ==
    /\ Len(started) >= 3
    /\ \E a, b \in Items : a < b /\ Completed(b) /\ Active(a)
    /\ \E k \in 1..Len(events) : events[k].op = "shift" /\ events[k].qlen >= 1

\* ------------------------------------------------------------------ C4
\* C4: if every promise returned by a dispatched fn settles, every item
\* add() put in the queue has its fn invoked eventually; and no step takes
\* an item out of the queue without invoking its fn.
C4_QueuedIsDispatched ==
    /\ \A i \in Items : InQueue(i) ~> Started(i)
    /\ [][\A i \in Items : InQueue(i) => (InQueue(i)' \/ Started(i)')]_vars

\* C4 for the dispatchers whose limit is at least 1 (it is the dispatchers
\* with a limit <= 0, which the constructor accepts, that never dispatch).
C4_QueuedIsDispatchedPositiveLimit ==
    /\ \A i \in Items : (concurrency >= 1 /\ InQueue(i)) ~> Started(i)
    /\ [][\A i \in Items : InQueue(i) => (InQueue(i)' \/ Started(i)')]_vars

\* ------------------------------------------------------------------ C5
\* C5: the handle add(fn) returned settles with exactly fn's outcome: it is
\* fulfilled with the value fn produced, rejected with the error fn produced
\* (rejected promise or synchronous throw), payload unchanged; it is never
\* settled before fn was invoked, and it is settled once the completion code
\* of its item has run.
C5_HandleIsFnOutcome ==
    \A i \in Items :
        /\ Settled(handle[i]) => Started(i)
        /\ handle[i].state = "fulfilled" => fnResult[i] = Fulfilled(handle[i].value)
        /\ handle[i].state = "rejected" =>
              (FnFailed(i) /\ fnResult[i].value = handle[i].value)
        /\ Completed(i) => Settled(handle[i])
        /\ (InQueue(i) \/ Active(i)) => handle[i] = Pending

C5_Witness ==
    \E i, j, k \in Items :
        /\ handle[i] = Fulfilled("v2") /\ fnResult[i] = Fulfilled("v2")
        /\ handle[j] = Rejected("e2") /\ fnResult[j] = Rejected("e2")
        /\ handle[k] = Rejected("e1") /\ fnResult[k] = Thrown("e1")

\* ------------------------------------------------------------------ C6
\* C6: a failure is followed by the bookkeeping of a success: right after
\* reject(err) `running` goes down by one and processNext() is called, which
\* dispatches the head of the queue if there is one and a slot is free; no
\* slot stays taken by an item that failed; and (every promise settles) an
\* item that is queued while another has failed is still dispatched.
C6_FailureBookkeeping ==
    /\ \A k \in 1..Len(events) :
          events[k].op = "reject" =>
              /\ k + 2 <= Len(events)
              /\ events[k + 1] = [op |-> "running--", item |-> events[k].item,
                                  running |-> events[k].running - 1,
                                  qlen |-> events[k].qlen]
              /\ events[k + 2].op = "processNext"
              /\ (events[k + 2].qlen >= 1 /\ events[k + 2].running < concurrency) =>
                    /\ k + 5 <= Len(events)
                    /\ events[k + 3].op = "running++"
                    /\ events[k + 4].op = "shift"
                    /\ events[k + 5].op = "call"
    /\ running = Cardinality(awaiting)
    /\ \A i \in Items : (FnFailed(i) /\ Started(i) /\ handle[i].state = "rejected") => ~Active(i)

C6_FailureDoesNotBlock ==
    /\ []C6_FailureBookkeeping
    /\ \A i \in Items :
          (InQueue(i) /\ \E j \in Items : FnFailed(j)) ~> Started(i)

\* an asynchronous failure completed with the limit reached and an item
\* waiting, which that completion dispatched
C6_Witness ==
    /\ Len(events) >= 6
    /\ events[1].op = "reject"
    /\ events[1].running = concurrency
    /\ events[1].qlen >= 1
    /\ events[6].op = "call"
    /\ running = concurrency

\* ------------------------------------------------------------------ C7
\* C7: a failure goes only to the handle of the item that failed: no handle
\* is rejected unless its own fn failed, and an item whose fn succeeded has
\* its handle fulfilled with its own value whatever other items failed
\* before or after it.
C7_FailureIsLocal ==
    \A i, j \in Items :
        (i # j /\ FnFailed(i) /\ Started(j)) =>
            /\ handle[j].state = "rejected" => FnFailed(j)
            /\ (Completed(j) /\ fnResult[j].state = "fulfilled") =>
                  handle[j] = Fulfilled(fnResult[j].value)
            /\ (Completed(i) /\ Active(j)) => handle[j] = Pending

\* a failing item, then a succeeding one: the first handle is rejected, the
\* second is fulfilled with its own value
C7_Witness ==
    /\ submitted >= 2
    /\ handle[1].state = "rejected" /\ FnFailed(1)
    /\ handle[2] = Fulfilled("v1") /\ fnResult[2] = Fulfilled("v1")

\* ------------------------------------------------------------------ C8
\* C8: a dispatcher constructed with max_concurrency <= 0 does not exist as
\* such: the constructor rejects the argument or clamps it to 1, so the
\* limit of every dispatcher is at least 1 and no dispatcher holds submitted
\* work that nothing can ever dispatch (items queued, nothing in flight).
C8_RejectsOrClampsNonPositive ==
    /\ concurrency >= 1
    /\ ~(Len(queue) >= 1 /\ awaiting = {})

\* ------------------------------------------------------------------ C9
\* C9: add() called while running < concurrency and the queue is empty
\* invokes fn in the same synchronous step: push, processNext, running++,
\* shift of that very item and the call of its fn follow one another with
\* nothing in between.
C9_ImmediateDispatch ==
    \A k \in 1..Len(events) :
        (events[k].op = "add" /\ events[k].running < concurrency /\ events[k].qlen = 0) =>
            /\ k + 5 <= Len(events)
            /\ events[k + 1].op = "push" /\ events[k + 1].item = events[k].item
            /\ events[k + 2].op = "processNext"
            /\ events[k + 3].op = "running++"
            /\ events[k + 4].op = "shift" /\ events[k + 4].item = events[k].item
            /\ events[k + 5].op = "call" /\ events[k + 5].item = events[k].item
            /\ Started(events[k].item)

\* a caller's add() on an idle dispatcher, and an add() made by a running fn
\* while a slot is still free
C9_Witness ==
    /\ Len(events) >= 12
    /\ events[1].op = "add" /\ events[1].running = 0 /\ events[1].qlen = 0
    /\ events[6].op = "call" /\ events[6].item = events[1].item
    /\ events[7].op = "add" /\ events[7].running = 1 /\ events[12].op = "call"

\* ----------------------------------------------------------------- C10
\* C10: when running = K and items are queued, the only step that invokes a
\* queued item's fn is the completion of an item dispatched earlier: that
\* step first settles the completed item's handle, then decrements running
\* to K - 1, then calls processNext, which takes the head of the queue.
C10_DispatchOnlyOnCompletion ==
    [][(running = concurrency /\ Len(queue) >= 1 /\ started' # started) =>
          \E f \in awaiting :
              /\ f \notin awaiting'
              /\ handle[f.resolve] = Pending
              /\ Settled(handle'[f.resolve])
              /\ Len(events') >= 6
              /\ events'[1].op \in {"resolve", "reject"}
              /\ events'[1].item = f.fn.id
              /\ events'[1].running = concurrency
              /\ events'[2].op = "running--"
              /\ events'[2].running = concurrency - 1
              /\ events'[3].op = "processNext"
              /\ events'[4].op = "running++"
              /\ events'[5].op = "shift"
              /\ events'[5].item = Head(queue).fn.id
              /\ events'[6].op = "call"
              /\ events'[6].item = Head(queue).fn.id
              /\ started'[Len(started) + 1] = Head(queue).fn.id]_vars

\* a completion at the limit that dispatched the head of the queue
C10_Witness ==
    /\ concurrency >= 2
    /\ Len(events) >= 6
    /\ events[1].op = "resolve"
    /\ events[1].running = concurrency
    /\ events[1].qlen >= 2
    /\ events[6].op = "call"
    /\ running = concurrency

\* ----------------------------------------------------------------- C11
\* C11: with concurrency = 1 the dispatcher is strictly sequential: at most
\* one item is active at any point (also in the middle of a step), and when
\* the fn of an item is invoked every item submitted before it has had its
\* fn invoked and settled, its handle settled and its slot given back; in
\* the step that invokes it nothing of an earlier item is settled after the
\* call.
C11_SequentialAtLimitOne ==
    concurrency = 1 =>
        /\ running <= 1
        /\ Cardinality(awaiting) <= 1
        /\ \A k \in 1..Len(events) : events[k].running <= 1
        /\ \A i, j \in Items :
              (i < j /\ Started(j)) =>
                  /\ Completed(i)
                  /\ fnResult[i].state \in {"fulfilled", "rejected", "thrown"}
                  /\ Settled(handle[i])
        /\ \A k, m \in 1..Len(events) :
              (k < m /\ events[k].op = "call" /\ events[m].op \in {"resolve", "reject"}) =>
                  events[m].item >= events[k].item

\* limit 1, every item submitted up front; the third is invoked by the
\* completion of the second, after the first succeeded and the second failed
C11_Witness ==
    /\ concurrency = 1
    /\ Len(started) >= 3
    /\ handle[1].state = "fulfilled"
    /\ handle[2].state = "rejected"
    /\ Active(3)
    /\ Len(events) >= 6
    /\ events[1] = [op |-> "reject", item |-> 2, running |-> 1, qlen |-> 2]
    /\ events[6].op = "call" /\ events[6].item = 3

\* ----------------------------------------------------------------- C12
\* C12: the fetches of the four cards all go through apiQueue, whose limit
\* is 3: however many card effects have run, at most 3 of their requests
\* are in flight at once, at the end of a step and inside it, and every
\* request in flight holds a slot of apiQueue.
C12_CardFetchesAtMostThree ==
    /\ concurrency = 3
    /\ Cardinality(InFlight) <= 3
    /\ \A i \in InFlight : Active(i)
    /\ \A k \in 1..Len(events) : events[k].running <= 3

\* more cards have asked than the limit allows: three requests are in
\* flight, the others wait in the queue
C12_Witness ==
    /\ submitted >= 4
    /\ Cardinality(InFlight) = 3
    /\ Len(queue) >= 1
    /\ events # <<>> /\ events[1].op = "add" /\ events[1].running = 3

C14_ConcurrencyIsFixed ==
    /\ [](concurrency \in {Constructor(args).concurrency : args \in ConstructorArgs})
    /\ [][concurrency' = concurrency]_vars

\* every operation has run, a synchronous throw and an asynchronous failure
\* among them: everything submitted was dispatched and has completed
C14_Witness ==
    /\ concurrency = 2
    /\ Len(started) = MaxItems
    /\ running = 0
    /\ \E i, j \in Items : fnResult[i].state = "thrown" /\ fnResult[j].state = "rejected"
    /\ \E k \in Items : handle[k].state = "fulfilled"

\* ----------------------------------------------------------------- C15
\* C15: work conservation: with a limit K >= 1, after every add() step and
\* every completion step there is no free slot while an item waits
\* (running < K with a non-empty queue never holds), although a call of
\* processNext dispatches at most one item: every dispatch (running++,
\* shift) comes right after a processNext call of its own.
C15_WorkConserving ==
    /\ concurrency >= 1 => ~(running < concurrency /\ Len(queue) >= 1)
    /\ \A k \in 1..Len(events) :
          /\ events[k].op = "running++" => (k > 1 /\ events[k - 1].op = "processNext")
          /\ events[k].op = "shift" => (k > 1 /\ events[k - 1].op = "running++")

\* a completion whose processNext dispatched a head that threw at once,
\* whose own processNext dispatched the next head: two dispatches in one
\* step, all slots taken again, an item still waiting
C15_Witness ==
    /\ concurrency >= 1
    /\ running = concurrency
    /\ Len(queue) >= 1
    /\ events # <<>>
    /\ events[1].op \in {"resolve", "reject"}
    /\ Cardinality({k \in 1..Len(events) : events[k].op = "call"}) = 2

\* ----------------------------------------------------------------- C16
\* C16: every handle settles exactly once.  With a limit >= 1 and every
\* promise of a dispatched fn settling, a pending handle is eventually
\* fulfilled or rejected; a settled handle never changes; and over its life
\* exactly one of resolve and reject is called for it, exactly once: a step
\* calls them at most once for a handle not yet settled, never for a
\* settled one, and a handle becomes settled only through such a call.
C16_HandleSettlesExactlyOnce ==
    /\ \A i \in Items :
          (concurrency >= 1 /\ handle[i] = Pending) ~> Settled(handle[i])
    /\ [][\A i \in Items :
            /\ Settled(handle[i]) =>
                  (handle'[i] = handle[i] /\ SettleCalls(i, events') = 0)
            /\ ~Settled(handle[i]) =>
                  /\ SettleCalls(i, events') <= 1
                  /\ Settled(handle'[i]) <=> SettleCalls(i, events') = 1]_vars

\* every handle add() returned has settled, some fulfilled, some rejected
\* after an asynchronous failure, some after a synchronous throw
C16_Witness ==
    /\ concurrency >= 1
    /\ submitted = MaxItems
    /\ \A i \in Items : Settled(handle[i])
    /\ \E i, j, k \in Items :
          /\ handle[i].state = "fulfilled"
          /\ handle[j].state = "rejected" /\ fnResult[j].state = "rejected"
          /\ handle[k].state = "rejected" /\ fnResult[k].state = "thrown"

\* ----------------------------------------------------------------- C17
\* C17: the order of completions is not tied to the order of submissions
\* or starts.  Whenever an item g is active and an item f started after it
\* is active too (which takes a limit K >= 2), nothing makes f wait for g:
\* the promise of f's fn can settle now, and once it has, the completion of
\* f can run now, settling f's handle and leaving g active.  C17_Witness is
\* the execution the claim says there is.
C17_CompletionOrderUnconstrained ==
    \A f, g \in awaiting :
        g.fn.id < f.fn.id =>
            /\ fnResult[f.fn.id].state = "pending" =>
                  ENABLED FnSettles(f.fn.id, Fulfilled("v1"))
            /\ Settled(fnResult[f.fn.id]) =>
                  ENABLED (/\ Resume(f)
                           /\ Settled(handle'[f.resolve])
                           /\ g \in awaiting')

\* limit >= 2: the item started later has settled, its handle is settled
\* and its slot given back, while the item started before it is still in
\* flight
C17_Witness ==
    /\ concurrency >= 2
    /\ \E a, b \in Items :
          /\ Started(a) /\ Started(b) /\ Pos(a, started) < Pos(b, started)
          /\ Settled(fnResult[b]) /\ Completed(b) /\ Settled(handle[b])
          /\ Active(a) /\ fnResult[a].state = "pending" /\ handle[a] = Pending

\* ----------------------------------------------------------------- C18
\* C18 as stated: the queue and `running` change in two kinds of step only.
\* An add() step appends one item to the tail, then possibly removes the
\* head and increments running by 1, and does nothing else to them; a
\* completion step decrements running by 1, then possibly removes the head
\* and increments running by 1, and does nothing else to them; every other
\* step leaves both unchanged.
C18_TwoKindsOfStep ==
    [][IF \E f \in awaiting : f \notin awaiting'
       THEN CompletionShape
       ELSE IF submitted' # submitted
            THEN AddShape
            ELSE queue' = queue /\ running' = running]_vars

\* C18 amended: the queue and `running` change in add() steps and
\* completion steps only, and a step in which no invoked fn throws
\* synchronously or calls add() is as the claim has it.  In every step the
\* operations are these: running++ and shift go together, right after a
\* processNext call of their own; push comes right after its add and is
\* followed by processNext; running-- comes right after the resolve or
\* reject of the same item and is followed by processNext; a fn that throws
\* synchronously has its reject, running-- and processNext in the same
\* step; an add() made by a fn is carried out inside the step that invoked
\* the fn; and the step changes running and the queue length by what these
\* operations add up to.
C18_TwoKindsOfStepAmended ==
    [][/\ IF \E f \in awaiting : f \notin awaiting'
          THEN /\ events'[1].op \in {"resolve", "reject"}
               /\ events'[2].op = "running--"
               /\ PlainStep(events', fnResult') => CompletionShape
          ELSE IF submitted' # submitted
               THEN /\ events'[1].op = "add"
                    /\ events'[2].op = "push"
                    /\ PlainStep(events', fnResult') => AddShape
               ELSE queue' = queue /\ running' = running
       /\ running' = running + Ops("running++", events') - Ops("running--", events')
       /\ Len(queue') = Len(queue) + Ops("push", events') - Ops("shift", events')
       /\ submitted' = submitted + Ops("add", events')
       /\ \A k \in 1..Len(events') :
             \E e \in {events'[k]} :
                /\ e.op = "running++" =>
                      /\ events'[k - 1].op = "processNext"
                      /\ events'[k + 1].op = "shift"
                /\ e.op = "shift" => events'[k - 1].op = "running++"
                /\ e.op = "push" =>
                      /\ events'[k - 1].op = "add"
                      /\ events'[k + 1].op = "processNext"
                /\ e.op = "running--" =>
                      /\ events'[k - 1].op \in {"resolve", "reject"}
                      /\ events'[k - 1].item = e.item
                      /\ events'[k + 1].op = "processNext"
                /\ (e.op = "call" /\ fnResult'[e.item].state = "thrown") =>
                      /\ events'[k + 1].op = "reject"
                      /\ events'[k + 1].item = e.item
                /\ (e.op = "add" /\ k > 1) => events'[k - 1].op = "call"]_vars

\* a completion step that dispatched a head whose fn threw at once, and
\* then a head whose fn called add(): that one step took two items out of
\* the queue and put a new one in
C18_Witness ==
    /\ events # <<>>
    /\ events[1].op \in {"resolve", "reject"}
    /\ \E k, m \in 1..(Len(events) - 1) :
          /\ events[k].op = "call" /\ events[k + 1].op = "reject"
          /\ events[m].op = "call" /\ events[m + 1].op = "add"
    /\ Ops("shift", events) = 2
    /\ Ops("push", events) = 1

\* ----------------------------------------------------------------- C19
\* C19: scheduling does not depend on the outcomes of the work items.  Two
\* runs with the same submissions and settlement events, differing in
\* whether items succeed or fail and in their values, go through the same
\* queue contents, `running` values and dispatch order.  Stated on one run:
\* in every reachable state, each step the dispatcher can take (an add(),
\* a settlement, the completion of an active item with any outcome) leads to
\* the same queue, running, dispatch order and active items as that step
\* does, with a success, from the state in which every earlier outcome was
\* a success; by induction over the events the two runs stay equal in
\* these.
C19_SchedulingIgnoresOutcomes ==
    /\ \A fn \in FnBehaviours :
          submitted + NestedPlanned(queue) + Cost(fn) <= MaxItems =>
              View(add(This, fn)) = View(add(Scrub(This), fn))
    /\ \A i \in Items, o \in Outcomes :
          fnResult[i].state = "pending" =>
              View([This EXCEPT !.fnResult[i] = o]) =
                  View([Scrub(This) EXCEPT !.fnResult[i] = Fulfilled("v1")])
    /\ \A item \in awaiting, o \in Outcomes :
          \E s \in {[This EXCEPT !.awaiting = @ \ {item},
                                 !.fnResult[item.fn.id] = o]} :
              View(Complete(s, item, o)) =
                  View(Complete(Scrub(s), item, Fulfilled("v1")))

\* an item failed while the limit was reached and another waited: its
\* completion took the catch path and dispatched the head of the queue,
\* after an earlier item had succeeded
C19_Witness ==
    /\ Len(events) >= 6
    /\ events[1].op = "reject"
    /\ events[1].running = concurrency
    /\ events[5].op = "shift"
    /\ Active(events[5].item)
    /\ \E j \in Items : handle[j].state = "fulfilled"
    /\ \E j \in Items : Active(j) /\ fnResult[j].state = "pending"

\* ----------------------------------------------------------------- C20
\* C20: two RequestQueue instances are independent.  A step on one of them
\* (an add(), a settlement, a completion) leaves the other as it was: its
\* queue, running and concurrency, and its work items and handles; and each
\* keeps to its own limit: running <= concurrency, with no free slot of
\* its own left while an item waits in its own queue.
C20_InstancesIndependent ==
    /\ [](\A k \in Instances :
            /\ pool[k].running <= pool[k].concurrency
            /\ pool[k].running = Cardinality(pool[k].awaiting)
            /\ ~(pool[k].running < pool[k].concurrency /\ Len(pool[k].queue) >= 1))
    /\ [][\A k, m \in Instances :
            (k # m /\ pool'[k] # pool[k]) =>
                /\ pool'[m].queue = pool[m].queue
                /\ pool'[m].running = pool[m].running
                /\ pool'[m].concurrency = pool[m].concurrency
                /\ pool'[m] = pool[m]]_vars

\* one instance is at its limit with an item waiting, while the other, with
\* a greater limit, runs more items than the first may and has them all
\* dispatched
C20_Witness ==
    \E k, m \in Instances :
        /\ pool[k].concurrency < pool[m].concurrency
        /\ pool[k].running = pool[k].concurrency
        /\ Len(pool[k].queue) >= 1
        /\ pool[m].running > pool[k].concurrency
        /\ pool[m].queue = <<>>

\* ----------------------------------------------------------------- C21
\* C21: the search is debounced.  At most one timer is pending at any time,
\* and it is the one of the most recent input change, holding the current
\* word of the text as it is now; a search request is made only when
\* at least 250 ms have passed since the last change of the text, and it
\* asks for the current word of the text as it is now.
C21_SearchIsDebounced ==
    /\ [](/\ Cardinality(search.timers) <= 1
          /\ \A t \in search.timers :
                /\ t.id = search.debounceRef
                /\ t.word = getCurrentWord(search.input))
    /\ [][search'.requests # search.requests =>
              /\ search'.requests = search.requests + 1
              /\ search.sinceChange >= 250
              /\ search'.query = getCurrentWord(search.input)
              /\ search'.input = search.input]_vars

\* the text was changed more than once, the earlier timers were cancelled;
\* 250 ms after the last change one request was made, for the word after
\* the comma
C21_Witness ==
    /\ search.timeouts >= 2
    /\ search.requests = 1
    /\ search.input = <<",", "a">>
    /\ search.query = <<"A">>
    /\ search.timers = {}

\* ----------------------------------------------------------------- C22
\* C22: `running` is the number of items that were dispatched and whose
\* completion step has not run: the items whose fn was invoked and whose
\* handle is not settled, which are the items with a suspended processNext
\* frame; and it is never negative, at the end of a step or inside it.
C22_RunningCountsActive ==
    /\ running = Cardinality({i \in Items : Started(i) /\ ~Settled(handle[i])})
    /\ running = Cardinality({i \in Items : Active(i)})
    /\ running = Cardinality(awaiting)
    /\ running >= 0
    /\ \A k \in 1..Len(events) : events[k].running >= 0

\* one item is active after a success, an asynchronous failure and a
\* synchronous throw have completed
C22_Witness ==
    /\ running = 1
    /\ \E i, j, k \in Items :
          /\ Completed(i) /\ handle[i].state = "fulfilled"
          /\ Completed(j) /\ fnResult[j].state = "rejected"
          /\ Completed(k) /\ fnResult[k].state = "thrown"

\* ----------------------------------------------------------------- C23
\* C23: conservation of items.  Every submitted item is in exactly one of
\* three places: waiting in the queue (once), active (one suspended frame,
\* counted in running), or completed (its handle settled); an item not yet
\* submitted is in none; so submitted = |queue| + running + completed.
C23_ItemsConserved ==
    /\ \A i \in Items :
          Cardinality({k \in 1..Len(queue) : queue[k].fn.id = i})
            + Cardinality({f \in awaiting : f.fn.id = i})
            + (IF Settled(handle[i]) THEN 1 ELSE 0)
          = (IF i <= submitted THEN 1 ELSE 0)
    /\ submitted = Len(queue) + running
                      + Cardinality({i \in Items : Settled(handle[i])})

\* every item is submitted; some wait, some are active, some completed by
\* success and some by failure
C23_Witness ==
    /\ submitted = MaxItems
    /\ Len(queue) >= 1
    /\ running >= 1
    /\ \E i, j \in Items : handle[i].state = "fulfilled" /\ handle[j].state = "rejected"

\* ----------------------------------------------------------------- C24
\* C24: quiescence.  Whenever the handle of every item submitted so far has
\* settled, the dispatcher's bookkeeping is as the constructor left it:
\* running = 0, the queue empty, no frame suspended; so with a limit >= 1
\* an add() made then is dispatched at once and takes the first slot.
C24_QuiescentWhenAllSettled ==
    (\A i \in 1..submitted : Settled(handle[i])) =>
        /\ running = Constructor(<<concurrency>>).running
        /\ queue = Constructor(<<concurrency>>).queue
        /\ awaiting = {}
        /\ (concurrency >= 1 /\ submitted < MaxItems) =>
              \E s \in {add(This, CardFetch)} :
                  /\ s.running = 1
                  /\ s.queue = <<>>
                  /\ s.started = Append(started, submitted + 1)

\* items were submitted beyond the limit, waited, ran and all settled,
\* some by success and some by failure; one more may be added
C24_Witness ==
    /\ submitted = MaxItems - 1
    /\ submitted > concurrency
    /\ concurrency >= 1
    /\ \A i \in 1..submitted : Settled(handle[i])
    /\ \E i, j \in Items : handle[i].state = "fulfilled" /\ fnResult[j].state = "rejected"

\* ----------------------------------------------------------------- C25
\* C25: an add() made by a work item from its synchronous body breaks
\* neither the bound nor the FIFO order.  fn is invoked only after running
\* was incremented and the item shifted out of the queue, so the nested
\* add() finds the caller's slot counted and the caller no longer queued:
\* when that makes running reach the limit, the nested item is queued at
\* the tail and not dispatched by that add(); running never exceeds a
\* limit >= 1 inside the step; and items are dispatched in the order of
\* their submission.
C25_ReentrantAddKeepsBoundAndOrder ==
    /\ \A k \in 1..Len(events) :
          \E e \in {events[k]} :
             /\ e.op = "call" =>
                   /\ k >= 3
                   /\ events[k - 2].op = "running++"
                   /\ events[k - 1].op = "shift" /\ events[k - 1].item = e.item
                   /\ e.running >= 1
             /\ (e.op = "add" /\ k > 1) =>
                   /\ events[k - 1].op = "call"
                   /\ e.running = events[k - 1].running
                   /\ e.qlen = events[k - 1].qlen
                   /\ e.item > events[k - 1].item
                   /\ events[k + 1].op = "push" /\ events[k + 1].qlen = e.qlen + 1
                   /\ events[k + 2].op = "processNext"
                   /\ e.running >= concurrency =>
                         (k + 2 = Len(events) \/ events[k + 3].op # "running++")
             /\ concurrency >= 1 => e.running <= concurrency
    /\ \A a, b \in 1..Len(started) : a < b => started[a] < started[b]

\* a completion dispatched the head of the queue, whose fn called add()
\* with every slot taken: the new item went behind the item already
\* waiting
C25_Witness ==
    /\ Len(queue) >= 2
    /\ running = concurrency
    /\ \E k \in 2..Len(events) :
          /\ events[k].op = "add"
          /\ events[k].running = concurrency
          /\ events[k].qlen >= 1
          /\ queue[Len(queue)].fn.id = events[k].item

\* ----------------------------------------------------------------- C26
\* C26: a fn that throws synchronously is handled as a fn whose promise is
\* rejected.  Right after the call come reject with the thrown error, then
\* running-- , then processNext, which dispatches the head of the queue if
\* an item waits and a slot is free; the step that invoked the fn runs to
\* its end (the add() that dispatched it has returned the handle), and at
\* its end the handle is rejected with the thrown error and the item holds
\* no slot.
C26_SyncThrowIsFailure ==
    /\ \A k \in 1..Len(events) :
          (events[k].op = "call" /\ fnResult[events[k].item].state = "thrown") =>
              /\ k + 3 <= Len(events)
              /\ events[k + 1] = [op |-> "reject", item |-> events[k].item,
                                  running |-> events[k].running,
                                  qlen |-> events[k].qlen]
              /\ events[k + 2] = [op |-> "running--", item |-> events[k].item,
                                  running |-> events[k].running - 1,
                                  qlen |-> events[k].qlen]
              /\ events[k + 3].op = "processNext"
              /\ (events[k + 3].qlen >= 1 /\ events[k + 3].running < concurrency) =>
                    /\ k + 6 <= Len(events)
                    /\ events[k + 4].op = "running++"
                    /\ events[k + 5].op = "shift"
                    /\ events[k + 6].op = "call"
                    /\ events[k + 6].item = events[k + 5].item
    /\ \A i \in Items :
          fnResult[i].state = "thrown" =>
              /\ i <= submitted
              /\ handle[i] = Rejected(fnResult[i].value)
              /\ ~Active(i) /\ ~InQueue(i)
              /\ Count(i, started) = 1

\* add() on an idle dispatcher with a fn that throws at once: the step
\* ends with the handle rejected and no slot taken
C26_Witness ==
    /\ Len(events) = 9
    /\ events[1].op = "add" /\ events[1].running = 0 /\ events[1].qlen = 0
    /\ events[6].op = "call" /\ events[6].item = events[1].item
    /\ events[7].op = "reject"
    /\ events[9].op = "processNext"
    /\ running = 0
    /\ handle[events[1].item] = Rejected("e1")
    /\ fnResult[events[1].item] = Thrown("e1")

\* ----------------------------------------------------------------- C27
\* C27: in the completion step of an item its handle is settled first,
\* while its slot is still counted; then running is decremented and
\* processNext is called, and if an item waits and the slot is free the
\* head of the queue as it was before the step is shifted and its fn
\* invoked, all in that one step: no add() comes between the decrement and
\* the dispatch, so no item submitted later takes the slot.
C27_SettleReleaseDispatchAtomic ==
    [][\A f \in awaiting :
          f \notin awaiting' =>
              /\ Len(events') >= 3
              /\ events'[1].op \in {"resolve", "reject"}
              /\ events'[1].item = f.fn.id
              /\ events'[1].running = running
              /\ handle[f.resolve] = Pending /\ Settled(handle'[f.resolve])
              /\ events'[2].op = "running--"
              /\ events'[2].running = running - 1
              /\ events'[3].op = "processNext"
              /\ (queue # <<>> /\ running - 1 < concurrency) =>
                    /\ Len(events') >= 6
                    /\ events'[4].op = "running++"
                    /\ events'[4].running = running
                    /\ events'[5].op = "shift"
                    /\ events'[5].item = Head(queue).fn.id
                    /\ events'[6].op = "call"
                    /\ events'[6].item = Head(queue).fn.id
                    /\ \A i \in (submitted + 1)..MaxItems :
                          Started(i)' => Pos(Head(queue).fn.id, started') < Pos(i, started')]_vars

\* limit 1: the active item succeeded; its completion settled its handle,
\* gave the slot back and handed it to the item that had waited, with a
\* further item still in the queue
C27_Witness ==
    /\ concurrency = 1
    /\ Len(events) >= 6
    /\ events[1].op = "resolve"
    /\ handle[events[1].item].state = "fulfilled"
    /\ events[2].op = "running--" /\ events[2].running = 0
    /\ events[5].op = "shift"
    /\ Active(events[5].item)
    /\ Len(queue) >= 1

\* ---------------------------------------------------------------- C28
\* The card's requests, the request whose handler ran last, the requests
\* whose handler ran after the effect last ran, and whether every request
\* of the card has been answered and handled.
OwnRequests == {r.id : r \in card.requests}

LastHandled == card.handled[Len(card.handled)]

HandledSinceEffect ==
    {card.handled[k] : k \in (card.effectAt + 1)..Len(card.handled)}

BothSettled ==
    /\ Cardinality(OwnRequests) >= 2
    /\ \A i \in OwnRequests : \E k \in 1..Len(card.handled) : card.handled[k] = i

OutcomeShown(i) ==
    IF fnResult[i].state = "fulfilled" THEN fnResult[i].value ELSE "unavailable"

CardShowsLastSettledUnlessOneFailed ==
    BothSettled =>
        /\ \A i \in OwnRequests : Started(i)
        /\ Len(card.handled) = Cardinality(OwnRequests)
        /\ Shown(card) =
               IF \E i \in HandledSinceEffect : fnResult[i].state = "rejected"
               THEN "unavailable"
               ELSE fnResult[LastHandled].value
        /\ Shown(card) = DataOf(card.symbol) =>
               \E r \in card.requests :
                   r.id = LastHandled /\ r.symbol = card.symbol

\* The symbol changed from s1 to s2 while the s1 request was unsettled, the
\* s2 request settled first and the s1 request last, both with data: the
\* card shows the data of s1 under the symbol s2.
StaleDataShown ==
    /\ BothSettled
    /\ card.requests = {[id |-> 1, symbol |-> "s1"], [id |-> 2, symbol |-> "s2"]}
    /\ card.effectAt = 0
    /\ card.handled = <<2, 1>>
    /\ card.symbol = "s2"
    /\ Shown(card) = DataOf("s1")

\* The symbol changed from s1 to s2 while the s1 request was unsettled, the
\* s1 request failed, the s2 request settled last with its data, and the
\* card shows "unavailable".
StaleErrorHidesData ==
    /\ BothSettled
    /\ card.requests = {[id |-> 1, symbol |-> "s1"], [id |-> 2, symbol |-> "s2"]}
    /\ card.effectAt = 0
    /\ card.handled = <<1, 2>>
    /\ fnResult[1].state = "rejected"
    /\ fnResult[2] = Fulfilled(DataOf("s2"))
    /\ Shown(card) = "unavailable"

====
